---- MODULE Spec2Model ----
(***************************************************************************)
(* Model of scripts/package.py: the release packaging run that builds the  *)
(* src.tar.gz / deb / zip / msi assets and publishes them into 'dist'.     *)
(*                                                                         *)
(* File names are sequences of tokens so that Python's substring test      *)
(* (`version in file`), str.endswith and the glob patterns are computed    *)
(* as the script computes them.  A directory is a function from base name  *)
(* to file content; a content is a payload (what the compare_* functions   *)
(* look at) and a meta part (timestamps and the like, which they ignore).  *)
(***************************************************************************)
EXTENDS Naturals, Sequences, FiniteSets, TLC

VARIABLES pc, host, root_dir, dist, build, temp, src_made, asset, force,
          slot, ret, results, exit_code, output, diag, stepStart, started,
          tools

vars == <<pc, host, root_dir, dist, build, temp, src_made, asset, force,
          slot, ret, results, exit_code, output, diag, stepStart, started,
          tools>>

\* ------------------------------------------------------------------ bounds
\* Largest number of other-version files lying in dist when the run starts.
MaxStale == 2
\* Largest number of files a CPack run leaves in the build directory.
MaxBuilt == 2

\* ------------------------------------------------------- names and paths
\* The version returned by sync_versions, e.g. "0.6.1".
version == <<"1">>
\* Versions of earlier releases, e.g. "0.6.2" and "0.6.10" (the latter has
\* the current version as a substring).
OtherVersions == {<<"2">>, <<"1", "0">>}

RootDirs == {<<"/", "repo">>, <<"/", "repo-", "1">>}

ZipName(v) == <<"ta-lib-">> \o v \o <<"-win64", ".zip">>
SrcName(v) == <<"ta-lib-">> \o v \o <<"-src.tar.gz">>
DebName(v) == <<"ta-lib_">> \o v \o <<"_amd64", ".deb">>
MsiName(v) == <<"ta-lib-">> \o v \o <<"-win64", ".msi">>
\* Names CPack produces when CPACK_PACKAGE_FILE_NAME carries no version.
DebPlain == <<"ta-lib", ".deb">>
MsiPlain == <<"ta-lib", ".msi">>
GitTarName == <<"ta-lib-git", ".tar.gz">>

\* `sub in s` of Python, on token sequences.
IsSubstr(sub, s) ==
    \E i \in 1..(Len(s) + 1) :
        /\ i + Len(sub) - 1 <= Len(s)
        /\ SubSeq(s, i, i + Len(sub) - 1) = sub

StartsWith(s, p) == Len(p) <= Len(s) /\ SubSeq(s, 1, Len(p)) = p
EndsWith(s, p) == Len(p) <= Len(s) /\ SubSeq(s, Len(s) - Len(p) + 1, Len(s)) = p

path_join(dir, name) == root_dir \o <<"/", dir, "/">> \o name
basename(path) == SubSeq(path, Len(root_dir) + 4, Len(path))

\* glob.glob(path_join(dir, prefix + "*" + suffix)): full paths of the
\* entries of the directory `files` whose name matches.
Glob(dir, files, prefix, suffix) ==
    { path_join(dir, n) : n \in { m \in DOMAIN files :
          /\ StartsWith(m, prefix)
          /\ EndsWith(m, suffix)
          /\ Len(prefix) + Len(suffix) <= Len(m) } }

\* ------------------------------------------------------------ directories
EmptyDir == [n \in {} |-> [payload |-> "A", meta |-> "old"]]
Remove(d, names) == [n \in (DOMAIN d) \ names |-> d[n]]
Put(d, name, c) == [n \in (DOMAIN d) \cup {name} |-> IF n = name THEN c ELSE d[n]]

\* A freshly built candidate; an earlier release; a stale file.
Fresh == [payload |-> "A", meta |-> "new"]
Published == { [payload |-> p, meta |-> "old"] : p \in {"A", "B", "corrupt"} }
Stale == [payload |-> "B", meta |-> "old"]

\* A symbolic link whose target is gone: glob lists it, os.path.exists
\* answers False.
Dangling == [payload |-> "dangling", meta |-> "new"]
exists(d, name) == name \in DOMAIN d /\ d[name].payload # "dangling"

\* --------------------------------------------------------------- results
Slots == {"src", "rpm", "deb", "zip", "msi"}
NoName == << >>
Result(succ, name, existed, copied) ==
    [none |-> FALSE, success |-> succ, built |-> FALSE,
     asset_file_name |-> name, existed |-> existed, copied |-> copied]
\* `return` without a value (package_windows_zip, line 197).
None == [none |-> TRUE, success |-> FALSE, built |-> FALSE,
         asset_file_name |-> NoName, existed |-> FALSE, copied |-> FALSE]
Default(name) == Result(FALSE, name, FALSE, FALSE)
\* dict.update(results) followed by results["built"] = True; a key the
\* returned dict does not carry keeps its default.
Update(old, new) ==
    [new EXCEPT !.built = TRUE,
                !.asset_file_name = IF new.asset_file_name = NoName
                                    THEN old.asset_file_name ELSE @]

\* ------------------------------------------------- equivalence functions
\* utilities/files.py: content equivalence ignoring metadata; a corrupt
\* archive cannot be read and the comparison fails with an error.
Compare(a, b) ==
    IF a.payload = "corrupt" THEN "error"
    ELSE IF b.payload = "corrupt" THEN "error"
    ELSE IF a.payload = b.payload THEN "equal" ELSE "different"
compare_tar_gz_files(a, b) == Compare(a, b)
compare_zip_files(a, b) == Compare(a, b)
compare_deb_files(a, b) == Compare(a, b)
compare_msi_files(a, b) == Compare(a, b)

\* ---------------------------------------------------------------- hosts
LinuxHosts ==
    [platform : {"linux"}, arch : {"64bit"}, ubuntu : BOOLEAN, redhat : BOOLEAN,
     debian : BOOLEAN, rpmbuild : BOOLEAN, cmake : BOOLEAN, cmakelists : BOOLEAN,
     wix : {FALSE}, dotnet : {FALSE}]
WindowsHosts ==
    [platform : {"win32"}, arch : {"64bit"}, ubuntu : {FALSE}, redhat : {FALSE},
     debian : {FALSE}, rpmbuild : {FALSE}, cmake : BOOLEAN, cmakelists : BOOLEAN,
     wix : BOOLEAN, dotnet : BOOLEAN]
OtherHosts ==
    [platform : {"win32", "darwin"}, arch : {"32bit"}, ubuntu : {FALSE},
     redhat : {FALSE}, debian : {FALSE}, rpmbuild : {FALSE}, cmake : {FALSE},
     cmakelists : {FALSE}, wix : {FALSE}, dotnet : {FALSE}]

\* What dist may hold when the run starts: for each of the two formats of
\* the platform possibly the asset of the current version, and up to
\* MaxStale assets of other versions.
DistsOf(cur1, cur2, stale) ==
    { [n \in (DOMAIN c1) \cup (DOMAIN c2) \cup s |->
          IF n \in DOMAIN c1 THEN c1[n]
          ELSE IF n \in DOMAIN c2 THEN c2[n] ELSE Stale] :
      c1 \in {EmptyDir} \cup { Put(EmptyDir, cur1, c) : c \in Published },
      c2 \in {EmptyDir} \cup { Put(EmptyDir, cur2, c) : c \in Published },
      s \in { t \in SUBSET stale : Cardinality(t) <= MaxStale } }
LinuxDists ==
    DistsOf(SrcName(version), DebName(version),
            { SrcName(v) : v \in OtherVersions } \cup { DebName(v) : v \in OtherVersions })
WindowsDists ==
    DistsOf(ZipName(version), MsiName(version),
            { ZipName(v) : v \in OtherVersions } \cup { MsiName(v) : v \in OtherVersions })

DefaultResults ==
    [s \in Slots |->
        Default(CASE s = "src" -> <<"src.tar.gz">>
                  [] s = "rpm" -> <<".rpm">>
                  [] s = "deb" -> <<".deb">>
                  [] s = "zip" -> <<".zip">>
                  [] s = "msi" -> <<".msi">>)]

Init ==
    /\ pc = "main"
    /\ \/ host \in LinuxHosts /\ dist \in LinuxDists
       \/ host \in WindowsHosts /\ dist \in WindowsDists
       \/ host \in OtherHosts /\ dist = EmptyDir
    /\ root_dir \in RootDirs
    /\ build = EmptyDir
    /\ temp = EmptyDir
    /\ src_made = FALSE
    /\ asset = NoName
    /\ force = FALSE
    /\ slot = "none"
    /\ ret = Default(NoName)
    /\ results = DefaultResults
    /\ exit_code = "running"
    /\ output = << >>
    /\ diag = "none"
    /\ stepStart = EmptyDir
    /\ started = {}
    /\ tools = {}

\* ----------------------------------------------------------- control flow
fs == <<dist, build, temp, src_made>>
env == <<host, root_dir>>
hist == <<stepStart, started>>

\* An external tool was run and exited with status zero (ok) or not; tools
\* is the record of the invocations of this run.
Ran(tool, ok) == tools' = tools \cup {[tool |-> tool, ok |-> ok]}

\* sys.exit(code), or the interpreter ending the run.
Exit(code, message) ==
    /\ pc' = "done"
    /\ exit_code' = code
    /\ diag' = message

\* A packaging function returns `result` to the caller waiting at `to`.
Return(result, to, message) ==
    /\ pc' = to
    /\ ret' = result
    /\ diag' = message

\* The caller of a packaging step, by slot.
ReturnPc == [s \in Slots |-> CASE s = "src" -> "linux_src_ret"
                               [] s = "rpm" -> "linux_rpm_ret"
                               [] s = "deb" -> "linux_deb_ret"
                               [] s = "zip" -> "win_zip_ret"
                               [] s = "msi" -> "win_msi_ret"]

\* Entering the packaging function of slot s.
Call(s, first) ==
    /\ pc' = first
    /\ slot' = s
    /\ stepStart' = dist
    /\ started' = started \cup {s}

\* if __name__ == "__main__"
main ==
    /\ pc = "main"
    /\ IF host.platform = "linux"
       THEN pc' = "linux_src" /\ UNCHANGED <<exit_code, diag>>
       ELSE IF host.platform = "win32"
       THEN IF host.arch = "64bit"
            THEN pc' = "win_zip" /\ UNCHANGED <<exit_code, diag>>
            ELSE Exit("0", "unsupported architecture")
       ELSE Exit("1", "unsupported platform")
    /\ UNCHANGED <<fs, env, hist, tools, asset, force, slot, ret, results, output>>

\* -------------------------------------------------- package_src_tar_gz
\* A comparison that cannot be computed taken as "the content changed".
Decide_error_as_changed(cmp) == IF cmp = "equal" THEN "keep" ELSE "copy"

\* The outcome of a comparison as a publish decision.
Decide(cmp) == IF cmp = "error" THEN "error" ELSE IF cmp = "equal" THEN "keep" ELSE "copy"

\* The decision with the existence test and the comparison dropped.
src_tar_gz_decision_always_copy(d, name, candidate) == "copy"

\* if not package_existed or not compare_tar_gz_files(candidate, dist_file):
\* the comparison runs only when the file exists.
src_tar_gz_decision(d, name, candidate) ==
    IF ~exists(d, name) THEN "copy"
    ELSE Decide(compare_tar_gz_files(candidate, d[name]))

\* Files of dist that the src.tar.gz step deletes before building.
src_other_versions(d, name) ==
    { basename(f) : f \in { g \in Glob("dist", d, << >>, <<"-src.tar.gz">>) :
                              ~EndsWith(g, name) } }

package_all_linux_src ==
    /\ pc = "linux_src"
    /\ IF host.ubuntu
       THEN Call("src", "src_purge")
       ELSE pc' = "linux_rpm" /\ UNCHANGED <<slot, hist>>
    /\ UNCHANGED <<fs, env, tools, asset, force, ret, results, exit_code, output, diag>>

package_src_tar_gz_purge ==
    /\ pc = "src_purge"
    /\ asset' = SrcName(version)
    /\ dist' = Remove(dist, src_other_versions(dist, SrcName(version)))
    /\ temp' = Remove(temp, {GitTarName})
    /\ src_made' = FALSE
    /\ pc' = "src_autoreconf"
    /\ UNCHANGED <<build, env, hist, tools, force, slot, ret, results, exit_code, output, diag>>

\* subprocess.run([...], check=True) of one autotools command.
src_tool(at, tool, next, message) ==
    /\ pc = at
    /\ \E ok \in BOOLEAN :
          /\ Ran(tool, ok)
          /\ IF ok
             THEN pc' = next /\ UNCHANGED <<ret, diag>>
             ELSE Return(Result(FALSE, asset, FALSE, FALSE), ReturnPc[slot], message)
    /\ UNCHANGED <<fs, env, hist, asset, force, slot, results, exit_code, output>>

package_src_tar_gz_autoreconf == src_tool("src_autoreconf", "autoreconf", "src_configure", "autoreconf failed")

package_src_tar_gz_configure == src_tool("src_configure", "configure", "src_make", "configure failed")

\* 'make dist' leaves ta-lib-git.tar.gz in root_dir, or exits zero without it.
package_src_tar_gz_make_dist ==
    /\ pc = "src_make"
    /\ \E ok \in BOOLEAN, made \in BOOLEAN :
          /\ Ran("make dist", ok)
          /\ src_made' = made
          /\ IF ok
             THEN pc' = "src_move" /\ UNCHANGED <<ret, diag>>
             ELSE Return(Result(FALSE, asset, FALSE, FALSE), ReturnPc[slot], "make dist failed")
    /\ UNCHANGED <<dist, build, temp, env, hist, asset, force, slot, results, exit_code, output>>

package_src_tar_gz_move ==
    /\ pc = "src_move"
    /\ IF ~src_made
       THEN /\ Return(Result(FALSE, asset, FALSE, FALSE), ReturnPc[slot], "candidate not found")
            /\ UNCHANGED <<temp, src_made>>
       ELSE /\ temp' = Put(temp, GitTarName, Fresh)
            /\ src_made' = FALSE
            /\ pc' = "src_test"
            /\ UNCHANGED <<ret, diag>>
    /\ UNCHANGED <<dist, build, env, hist, tools, asset, force, slot, results, exit_code, output>>

\* How far test_autotool_src gets in the unpacked candidate: os.chdir into
\* a directory the unchecked `tar -xzf` did not create raises outside the
\* try block; every other stop is a `return False`.
TestOutcomes ==
    {"ok", "chdir raised", "configure failed", "make failed", "ta_regtest failed",
     "gen_code missing", "unexpected git changes", "generated files differ",
     "make install failed"}

\* The value test_autotool_src returns.
test_autotool_src(outcome) == outcome = "ok"

\* The check of the value test_autotool_src returned left out.
VerificationFailed_never(verified) == FALSE

\* if not test_autotool_src(package_temp_dir, sudo_pwd): return result
VerificationFailed(verified) == ~verified

package_src_tar_gz_test ==
    /\ pc = "src_test"
    /\ \E outcome \in TestOutcomes :
          IF outcome = "chdir raised"
          THEN /\ Exit("1", "uncaught exception")
               /\ UNCHANGED <<ret, tools>>
          ELSE /\ Ran("test_autotool_src", test_autotool_src(outcome))
               /\ UNCHANGED exit_code
               /\ IF VerificationFailed(test_autotool_src(outcome))
                  THEN Return(Result(FALSE, asset, FALSE, FALSE), ReturnPc[slot],
                              "verification failed")
                  ELSE pc' = "src_publish" /\ UNCHANGED <<ret, diag>>
    /\ UNCHANGED <<fs, env, hist, asset, force, slot, results, output>>

package_src_tar_gz_publish ==
    /\ pc = "src_publish"
    /\ LET existed == exists(dist, asset)
           decision == src_tar_gz_decision(dist, asset, temp[GitTarName])
       IN IF decision = "error"
          THEN Exit("1", "comparison failed") /\ UNCHANGED <<dist, temp, ret>>
          ELSE /\ IF decision = "copy"
                  THEN dist' = Put(dist, asset, temp[GitTarName])
                  ELSE dist' = dist
               /\ temp' = Remove(temp, {GitTarName})
               /\ Return(Result(TRUE, asset, existed, decision = "copy"),
                         ReturnPc[slot], diag)
               /\ UNCHANGED exit_code
    /\ UNCHANGED <<build, src_made, env, hist, tools, asset, force, slot, results, output>>

\* ------------------------------------------------------ package_all_linux
\* The check of the returned result left out.
FailFast_never(result) == FALSE

\* if not results["success"]: print(...); sys.exit(1)
FailFast(result) == ~result.success

\* The caller's handling of a returned result: update the slot's results,
\* leave the run on failure, otherwise go on with `next`.
AfterStep(at, s, next) ==
    /\ pc = at
    /\ results' = [results EXCEPT ![s] = Update(@, ret)]
    /\ IF FailFast(ret)
       THEN Exit("1", "packaging failed")
       ELSE pc' = next /\ UNCHANGED <<exit_code, diag>>
    /\ UNCHANGED <<fs, env, hist, tools, asset, force, slot, ret, output>>

package_all_linux_src_ret == AfterStep("linux_src_ret", "src", "linux_rpm")

\* ------------------------------------------------------------ package_deb
\* What a CPack run may leave in the build directory.
BuildOutputs(names, kinds) ==
    { [n \in s |-> c] : s \in { t \in SUBSET names : Cardinality(t) <= MaxBuilt },
                        c \in kinds }
DebBuildNames == {DebName(version), DebName(<<"2">>), DebPlain}
MsiBuildNames == {MsiName(version), MsiName(<<"2">>), MsiPlain}

\* Files of dist that the deb step deletes before building.
deb_other_versions(d, ver) ==
    { basename(f) : f \in { g \in Glob("dist", d, << >>, <<".deb">>) :
                              ~IsSubstr(ver, g) } }

\* if not package_existed or not compare_deb_files(deb_file, dist_file)
deb_decision(d, name, candidate) ==
    IF ~exists(d, name) THEN "copy"
    ELSE Decide(compare_deb_files(candidate, d[name]))

package_deb_deps ==
    /\ pc = "deb_deps"
    /\ IF ~host.debian
       THEN Return(Default(NoName), ReturnPc[slot], "debian required")
       ELSE IF ~host.cmake
       THEN Return(Default(NoName), ReturnPc[slot], "cmake not found")
       ELSE IF ~host.cmakelists
       THEN Return(Default(NoName), ReturnPc[slot], "CMakeLists.txt not found")
       ELSE pc' = "deb_purge" /\ UNCHANGED <<ret, diag>>
    /\ UNCHANGED <<fs, env, hist, tools, asset, force, slot, results, exit_code, output>>

package_deb_purge ==
    /\ pc = "deb_purge"
    /\ dist' = Remove(dist, deb_other_versions(dist, version))
    /\ build' = EmptyDir
    /\ pc' = "deb_cmake"
    /\ UNCHANGED <<temp, src_made, env, hist, tools, asset, force, slot, ret, results,
                   exit_code, output, diag>>

package_deb_cmake ==
    /\ pc = "deb_cmake"
    /\ \E ok \in BOOLEAN :
          /\ Ran("cmake", ok)
          /\ IF ok
             THEN pc' = "deb_cpack" /\ UNCHANGED <<ret, diag>>
             ELSE Return(Default(NoName), ReturnPc[slot], "cmake failed")
    /\ UNCHANGED <<fs, env, hist, asset, force, slot, results, exit_code, output>>

package_deb_cpack ==
    /\ pc = "deb_cpack"
    /\ \E ok \in BOOLEAN, out \in BuildOutputs(DebBuildNames, {Fresh, Dangling}) :
          /\ Ran("cpack", ok)
          /\ IF ok
             THEN pc' = "deb_find" /\ build' = out /\ UNCHANGED <<ret, diag>>
             ELSE /\ Return(Default(NoName), ReturnPc[slot], "cpack failed")
                  /\ build' = EmptyDir
    /\ UNCHANGED <<dist, temp, src_made, env, hist, asset, force, slot, results,
                   exit_code, output>>

package_deb_find ==
    /\ pc = "deb_find"
    /\ LET deb_files == Glob("build", build, << >>, <<".deb">>)
           deb_file == CHOOSE f \in deb_files : TRUE
       IN IF Cardinality(deb_files) # 1
          THEN /\ Return(Default(NoName), ReturnPc[slot], "ambiguous")
               /\ UNCHANGED asset
          ELSE IF ~IsSubstr(version, deb_file)
          THEN /\ Return(Default(NoName), ReturnPc[slot], "version missing")
               /\ UNCHANGED asset
          ELSE IF ~exists(build, basename(deb_file))
          THEN /\ Return(Default(NoName), ReturnPc[slot], "candidate not found")
               /\ asset' = basename(deb_file)
          ELSE /\ pc' = "deb_publish"
               /\ asset' = basename(deb_file)
               /\ UNCHANGED <<ret, diag>>
    /\ UNCHANGED <<fs, env, hist, tools, force, slot, results, exit_code, output>>

package_deb_publish ==
    /\ pc = "deb_publish"
    /\ LET existed == exists(dist, asset)
           decision == deb_decision(dist, asset, build[asset])
       IN IF decision = "error"
          THEN Exit("1", "comparison failed") /\ UNCHANGED <<dist, build, ret>>
          ELSE /\ IF decision = "copy"
                  THEN /\ dist' = Put(dist, asset, build[asset])
                       /\ build' = Remove(build, {asset})
                  ELSE UNCHANGED <<dist, build>>
               /\ Return(Result(TRUE, asset, existed, decision = "copy"),
                         ReturnPc[slot], diag)
               /\ UNCHANGED exit_code
    /\ UNCHANGED <<temp, src_made, env, hist, tools, asset, force, slot, results, output>>

\* ----------------------------------------- package_all_linux: rpm and deb
package_all_linux_rpm ==
    /\ pc = "linux_rpm"
    /\ IF host.redhat
       THEN IF ~host.rpmbuild
            THEN Exit("1", "rpmbuild not found") /\ UNCHANGED <<slot, hist>>
            ELSE Call("rpm", "deb_deps") /\ UNCHANGED <<exit_code, diag>>
       ELSE pc' = "linux_deb" /\ UNCHANGED <<slot, hist, exit_code, diag>>
    /\ UNCHANGED <<fs, env, tools, asset, force, ret, results, output>>

package_all_linux_rpm_ret == AfterStep("linux_rpm_ret", "rpm", "linux_deb")

package_all_linux_deb ==
    /\ pc = "linux_deb"
    /\ IF host.debian
       THEN Call("deb", "deb_deps")
       ELSE pc' = "linux_summary" /\ UNCHANGED <<slot, hist>>
    /\ UNCHANGED <<fs, env, tools, asset, force, ret, results, exit_code, output, diag>>

package_all_linux_deb_ret == AfterStep("linux_deb_ret", "deb", "linux_summary")

\* The display with the test of `existed` inverted.
display_package_results_swapped(r) ==
    IF r.built
    THEN IF r.copied
         THEN IF r.existed THEN <<"Created", r.asset_file_name>>
              ELSE <<"Updated", r.asset_file_name>>
         ELSE <<"No changes", r.asset_file_name>>
    ELSE <<"skipped", r.asset_file_name>>

\* The line display_package_results prints for one results dict.
display_package_results(r) ==
    IF r.built
    THEN IF r.copied
         THEN IF r.existed THEN <<"Updated", r.asset_file_name>>
              ELSE <<"Created", r.asset_file_name>>
         ELSE <<"No changes", r.asset_file_name>>
    ELSE <<"skipped", r.asset_file_name>>

package_all_linux_summary ==
    /\ pc = "linux_summary"
    /\ output' = << display_package_results(results["src"]),
                    display_package_results(results["rpm"]),
                    display_package_results(results["deb"]) >>
    /\ Exit("0", "Packaging completed successfully")
    /\ UNCHANGED <<fs, env, hist, tools, asset, force, slot, ret, results>>

\* ----------------------------------------------------- windows: cmake
\* delete_other_versions(path_join(root_dir, dir), prefix*suffix, ver):
\* the base names it deletes from the directory d.
delete_other_versions(dir, d, prefix, suffix, new_version) ==
    { basename(f) : f \in { g \in Glob(dir, d, prefix, suffix) :
                              ~IsSubstr(new_version, g) } }

\* do_cmake_reconfigure: exits on any error.
do_cmake_reconfigure(at, next) ==
    /\ pc = at
    /\ build' = EmptyDir
    /\ IF ~host.cmake
       THEN Exit("1", "cmake not found") /\ UNCHANGED tools
       ELSE IF ~host.cmakelists
       THEN Exit("1", "CMakeLists.txt not found") /\ UNCHANGED tools
       ELSE \E ok \in BOOLEAN :
               /\ Ran("cmake", ok)
               /\ IF ok THEN pc' = next /\ UNCHANGED <<exit_code, diag>>
                  ELSE Exit("1", "cmake configuration failed")
    /\ UNCHANGED <<dist, temp, src_made, env, hist, asset, force, slot, ret,
                   results, output>>

\* do_cmake_build: exits on any error.
do_cmake_build(at, next) ==
    /\ pc = at
    /\ \E ok \in BOOLEAN :
          /\ Ran("cmake --build", ok)
          /\ IF ok THEN pc' = next /\ UNCHANGED <<exit_code, diag>>
             ELSE Exit("1", "cmake build failed")
    /\ UNCHANGED <<fs, env, hist, asset, force, slot, ret, results, output>>

\* ---------------------------------------------------- package_windows_zip
\* shutil.copy has opened the destination for writing and not yet closed it.
Partial == [payload |-> "partial", meta |-> "new"]

\* if not package_existed or not compare_zip_files(package_temp_file, dist_file)
zip_decision(d, name, candidate) ==
    IF ~exists(d, name) THEN "copy"
    ELSE Decide(compare_zip_files(candidate, d[name]))

package_all_windows_zip ==
    /\ pc = "win_zip"
    /\ Call("zip", "zip_purge")
    /\ UNCHANGED <<fs, env, tools, asset, force, ret, results, exit_code, output, diag>>

package_windows_zip_purge ==
    /\ pc = "zip_purge"
    /\ asset' = ZipName(version)
    /\ dist' = Remove(dist, delete_other_versions("dist", dist, <<"ta-lib-">>, <<".zip">>, version))
    /\ temp' = Remove(temp, { n \in DOMAIN temp : StartsWith(n, <<"ta-lib-">>) })
    /\ pc' = "zip_reconfigure"
    /\ UNCHANGED <<build, src_made, env, hist, tools, force, slot, ret, results,
                   exit_code, output, diag>>

package_windows_zip_reconfigure == do_cmake_reconfigure("zip_reconfigure", "zip_build")

package_windows_zip_build == do_cmake_build("zip_build", "zip_create")

\* Staging of the libraries and headers, then create_zip_file.  shutil.copy
\* of a library the build did not produce raises an error that the
\* `except subprocess.CalledProcessError` does not catch.
package_windows_zip_create ==
    /\ pc = "zip_create"
    /\ \E outcome \in {"ok", "copy raised", "zip failed"} :
          IF outcome = "ok"
          THEN /\ temp' = Put(temp, asset, Fresh)
               /\ pc' = "zip_publish"
               /\ UNCHANGED <<ret, diag, exit_code>>
          ELSE IF outcome = "copy raised"
          THEN /\ Exit("1", "uncaught exception")
               /\ UNCHANGED <<temp, ret>>
          ELSE /\ Return(None, ReturnPc[slot], "zip creation failed")
               /\ UNCHANGED <<temp, exit_code>>
    /\ UNCHANGED <<dist, build, src_made, env, hist, tools, asset, force, slot, results,
                   output>>

\* The publish decision; when the candidate is to be copied, shutil.copy
\* opens dist_file for writing, which creates or truncates it.
package_windows_zip_publish ==
    /\ pc = "zip_publish"
    /\ LET existed == exists(dist, asset)
           decision == zip_decision(dist, asset, temp[asset])
       IN IF decision = "error"
          THEN Exit("1", "comparison failed") /\ UNCHANGED <<dist, ret>>
          ELSE IF decision = "copy"
          THEN /\ dist' = Put(dist, asset, Partial)
               /\ ret' = Result(FALSE, asset, existed, FALSE)
               /\ pc' = "zip_copy"
               /\ UNCHANGED <<exit_code, diag>>
          ELSE /\ Return(Result(TRUE, asset, existed, FALSE), ReturnPc[slot], diag)
               /\ UNCHANGED <<dist, exit_code>>
    /\ UNCHANGED <<build, temp, src_made, env, hist, tools, asset, force, slot, results, output>>

\* shutil.copy has written the whole candidate and closed dist_file.
package_windows_zip_copy ==
    /\ pc = "zip_copy"
    /\ dist' = Put(dist, asset, temp[asset])
    /\ Return(Result(TRUE, asset, ret.existed, TRUE), ReturnPc[slot], diag)
    /\ UNCHANGED <<build, temp, src_made, env, hist, tools, asset, force, slot, results,
                   exit_code, output>>

\* The overwrite of the .msi never forced.
force_msi_overwrite_never(zip_results) == FALSE

\* force_msi_overwrite = False
\* if zip_results["built"] and zip_results["copied"]: force_msi_overwrite = True
force_msi_overwrite(zip_results) == zip_results.built /\ zip_results.copied

\* zip_results.update(results) raises TypeError when the step returned None.
package_all_windows_zip_ret ==
    /\ pc = "win_zip_ret"
    /\ IF ret.none
       THEN Exit("1", "uncaught exception") /\ UNCHANGED <<results, force>>
       ELSE /\ results' = [results EXCEPT !["zip"] = Update(@, ret)]
            /\ IF FailFast(ret)
               THEN Exit("1", "packaging failed") /\ UNCHANGED force
               ELSE /\ force' = force_msi_overwrite(Update(results["zip"], ret))
                    /\ pc' = "win_msi"
                    /\ UNCHANGED <<exit_code, diag>>
    /\ UNCHANGED <<fs, env, hist, tools, asset, slot, ret, output>>

\* ---------------------------------------------------- package_windows_msi
\* The decision with `force or` dropped.
msi_decision_ignoring_force(f, d, name, candidate) ==
    IF ~exists(d, name) THEN "copy"
    ELSE Decide(compare_msi_files(candidate, d[name]))

\* if force or not package_existed or not compare_msi_files(...): the
\* comparison runs only when not forced and the file exists.
msi_decision(f, d, name, candidate) ==
    IF f THEN "copy"
    ELSE IF ~exists(d, name) THEN "copy"
    ELSE Decide(compare_msi_files(candidate, d[name]))

package_all_windows_msi ==
    /\ pc = "win_msi"
    /\ IF ~host.wix
       THEN /\ pc' = "win_summary"
            /\ diag' = "MSI packaging skipped"
            /\ UNCHANGED <<slot, hist>>
       ELSE Call("msi", "msi_deps") /\ UNCHANGED diag
    /\ UNCHANGED <<fs, env, tools, asset, force, ret, results, exit_code, output>>

package_windows_msi_deps ==
    /\ pc = "msi_deps"
    /\ IF ~host.dotnet
       THEN Return(Default(NoName), ReturnPc[slot], ".NET not found")
       ELSE IF ~host.wix
       THEN Return(Default(NoName), ReturnPc[slot], "WiX not found")
       ELSE pc' = "msi_reconfigure" /\ UNCHANGED <<ret, diag>>
    /\ UNCHANGED <<fs, env, hist, tools, asset, force, slot, results, exit_code, output>>

package_windows_msi_reconfigure == do_cmake_reconfigure("msi_reconfigure", "msi_build")

package_windows_msi_build == do_cmake_build("msi_build", "msi_cpack")

\* do_cpack_build: exits on any error.
do_cpack_build ==
    /\ pc = "msi_cpack"
    /\ \E ok \in BOOLEAN, out \in BuildOutputs(MsiBuildNames, {Fresh}) :
          /\ Ran("cpack", ok)
          /\ IF ok
             THEN pc' = "msi_find" /\ build' = out /\ UNCHANGED <<exit_code, diag>>
             ELSE Exit("1", "cpack failed") /\ UNCHANGED build
    /\ UNCHANGED <<dist, temp, src_made, env, hist, asset, force, slot, ret,
                   results, output>>

find_asset_with_ext ==
    /\ pc = "msi_find"
    /\ LET files == Glob("build", build, << >>, <<".msi">>)
           filepath == CHOOSE f \in files : TRUE
       IN IF Cardinality(files) # 1
          THEN Exit("1", "ambiguous") /\ UNCHANGED asset
          ELSE IF ~IsSubstr(version, filepath)
          THEN Exit("1", "version missing") /\ UNCHANGED asset
          ELSE /\ asset' = basename(filepath)
               /\ pc' = "msi_publish"
               /\ UNCHANGED <<exit_code, diag>>
    /\ UNCHANGED <<fs, env, hist, tools, force, slot, ret, results, output>>

package_windows_msi_publish ==
    /\ pc = "msi_publish"
    /\ LET existed == exists(dist, asset)
           decision == msi_decision(force, dist, asset, build[asset])
       IN IF decision = "error"
          THEN Exit("1", "comparison failed") /\ UNCHANGED ret
          ELSE IF decision = "copy"
          THEN /\ ret' = Result(FALSE, asset, existed, FALSE)
               /\ pc' = "msi_remove"
               /\ UNCHANGED <<exit_code, diag>>
          ELSE /\ Return(Result(TRUE, asset, existed, FALSE), ReturnPc[slot], diag)
               /\ UNCHANGED exit_code
    /\ UNCHANGED <<fs, env, hist, tools, asset, force, slot, results, output>>

\* if os.path.exists(dist_file): os.remove(dist_file)
package_windows_msi_remove ==
    /\ pc = "msi_remove"
    /\ dist' = IF exists(dist, asset) THEN Remove(dist, {asset}) ELSE dist
    /\ pc' = "msi_rename"
    /\ UNCHANGED <<build, temp, src_made, env, hist, tools, asset, force, slot, ret,
                   results, exit_code, output, diag>>

\* os.rename(temp_dist_file, dist_file)
package_windows_msi_rename ==
    /\ pc = "msi_rename"
    /\ dist' = Put(dist, asset, build[asset])
    /\ build' = Remove(build, {asset})
    /\ Return(Result(TRUE, asset, ret.existed, TRUE), ReturnPc[slot], diag)
    /\ UNCHANGED <<temp, src_made, env, hist, tools, asset, force, slot, results,
                   exit_code, output>>

package_all_windows_msi_ret == AfterStep("win_msi_ret", "msi", "win_summary")

package_all_windows_summary ==
    /\ pc = "win_summary"
    /\ output' = << display_package_results(results["zip"]),
                    display_package_results(results["msi"]) >>
    /\ Exit("0", "Packaging completed successfully")
    /\ UNCHANGED <<fs, env, hist, tools, asset, force, slot, ret, results>>

\* ------------------------------------------------------------------- run
Next ==
    \/ main
    \/ package_all_linux_src
    \/ package_src_tar_gz_purge
    \/ package_src_tar_gz_autoreconf
    \/ package_src_tar_gz_configure
    \/ package_src_tar_gz_make_dist
    \/ package_src_tar_gz_move
    \/ package_src_tar_gz_test
    \/ package_src_tar_gz_publish
    \/ package_all_linux_src_ret
    \/ package_all_linux_rpm
    \/ package_all_linux_rpm_ret
    \/ package_all_linux_deb
    \/ package_all_linux_deb_ret
    \/ package_deb_deps
    \/ package_deb_purge
    \/ package_deb_cmake
    \/ package_deb_cpack
    \/ package_deb_find
    \/ package_deb_publish
    \/ package_all_linux_summary
    \/ package_all_windows_zip
    \/ package_windows_zip_purge
    \/ package_windows_zip_reconfigure
    \/ package_windows_zip_build
    \/ package_windows_zip_create
    \/ package_windows_zip_publish
    \/ package_windows_zip_copy
    \/ package_all_windows_zip_ret
    \/ package_all_windows_msi
    \/ package_windows_msi_deps
    \/ package_windows_msi_reconfigure
    \/ package_windows_msi_build
    \/ do_cpack_build
    \/ find_asset_with_ext
    \/ package_windows_msi_publish
    \/ package_windows_msi_remove
    \/ package_windows_msi_rename
    \/ package_all_windows_msi_ret
    \/ package_all_windows_summary

Spec == Init /\ [][Next]_vars

\* ------------------------------------------------------------ properties
RetPcs == { ReturnPc[s] : s \in Slots }
\* A packaging step has just returned success to its caller.
Returned == pc \in RetPcs /\ ret.success
\* The candidate is built and named, and the step is at or past its
\* publish decision.
InPublish ==
    \/ pc \in {"src_publish", "deb_publish", "zip_publish", "zip_copy",
               "msi_publish", "msi_remove", "msi_rename"}
    \/ Returned
\* What the summary will print for the step that has just returned.
Outcome == display_package_results(Update(results[slot], ret))[1]
\* dist held, when the step started, a file of the candidate's name whose
\* content the compare_* function finds equivalent to the candidate's.
EquivalentBefore ==
    /\ exists(stepStart, asset)
    /\ Compare(Fresh, stepStart[asset]) = "equal"
Unforced == ~(slot = "msi" /\ force)
Ext(n) == n[Len(n)]
Later == [s \in Slots |-> CASE s = "src" -> {"rpm", "deb"}
                            [] s = "rpm" -> {"deb"}
                            [] s = "zip" -> {"msi"}
                            [] OTHER -> {}]

\* C1: in an unforced packaging step, when dist already holds an artifact of
\* the candidate's name with equivalent content, the file in dist stays as it
\* was through the whole publish part of the step (never removed, truncated
\* or replaced) and the step returns existed=True, copied=False, which is
\* displayed as "No changes".
IdempotentPublish ==
    (InPublish /\ Unforced /\ EquivalentBefore) =>
        /\ exists(dist, asset)
        /\ dist[asset] = stepStart[asset]
        /\ pc \notin {"zip_copy", "msi_remove", "msi_rename"}
        /\ Returned => (ret.existed /\ ~ret.copied /\ Outcome = "No changes")

IdempotentPublishWitness ==
    /\ Returned
    /\ Unforced
    /\ EquivalentBefore
    /\ ~ret.copied
    /\ dist[asset].meta = "old"

\* C2 (as claimed): once a step is at or past its publish decision, dist holds
\* no artifact of the candidate's format other than the one of the candidate's
\* name, and after a successful step it holds that one.
OneArtifactPerFormat ==
    InPublish =>
        /\ \A n \in DOMAIN dist : Ext(n) = Ext(asset) => n = asset
        /\ Returned => exists(dist, asset)

\* C3 (as claimed): from the publish decision on, whenever an artifact of the
\* candidate's name was published before, dist holds under that name either
\* the complete old file or the complete new one.
AtomicReplace ==
    (InPublish /\ exists(stepStart, asset)) =>
        /\ exists(dist, asset)
        /\ dist[asset] \in {stepStart[asset], Fresh}

\* C4 (as claimed): when the build directory holds zero or several files of
\* the format, the step fails and dist is as it was when the step started.
AmbiguityLeavesDist ==
    diag = "ambiguous" =>
        /\ \/ pc \in RetPcs /\ ~ret.success
           \/ pc = "done" /\ exit_code = "1"
        /\ dist = stepStart

\* C5 (as claimed): a candidate whose base name lacks the version never gets
\* to the publish decision, and no file published in this run has a name
\* without the version.
VersionEnforced ==
    /\ pc \in {"deb_publish", "msi_publish"} => IsSubstr(version, asset)
    /\ \A n \in DOMAIN dist : dist[n].meta = "new" => IsSubstr(version, n)

\* C6: package_windows_msi finding a content-equivalent artifact of the same
\* name in dist: with force=True it replaces the file and returns
\* existed=True, copied=True ("Updated"); with force=False it leaves the file
\* and returns copied=False ("No changes").
ForceOverwrite ==
    (pc = "win_msi_ret" /\ ret.success /\ EquivalentBefore) =>
        IF force
        THEN /\ ret.existed /\ ret.copied /\ Outcome = "Updated"
             /\ exists(dist, asset) /\ dist[asset] = Fresh
        ELSE /\ ret.existed /\ ~ret.copied /\ Outcome = "No changes"
             /\ exists(dist, asset) /\ dist[asset] = stepStart[asset]

ForceOverwriteWitness ==
    /\ pc = "win_msi_ret"
    /\ ret.success
    /\ EquivalentBefore
    /\ force
    /\ ret.copied

\* C7: a step that returns without success is followed at once by the end of
\* the run with exit code 1, with no change to dist, build or temp and no
\* further step started; nothing happens after the run has ended; and a slot
\* recorded as built without success means the run is over with exit code 1
\* and no later slot of the order was started.
FailFastOrdering ==
    /\ [](\A s \in Slots :
            (results[s].built /\ ~results[s].success) =>
                /\ pc = "done"
                /\ exit_code = "1"
                /\ started \cap Later[s] = {})
    /\ [][ /\ pc # "done"
           /\ (pc \in RetPcs /\ ~ret.success) =>
                 /\ pc' = "done"
                 /\ exit_code' = "1"
                 /\ UNCHANGED <<dist, build, temp, src_made, started>> ]_vars

FailFastOrderingWitness ==
    /\ pc = "done"
    /\ exit_code = "1"
    /\ results["src"].built
    /\ ~results["src"].success
    /\ host.debian
    /\ started = {"src"}

\* C8 (as claimed): when the candidate file is missing after the build, the
\* step fails and dist is as it was when the step started.
MissingCandidateLeavesDist ==
    diag = "candidate not found" =>
        /\ pc \in RetPcs
        /\ ~ret.success
        /\ dist = stepStart

\* C9 (as claimed): a finished run has exit code 0 exactly when the summary was
\* printed and every attempted format was packaged successfully.
ExitStatus ==
    pc = "done" =>
        (exit_code = "0" <=>
            (output # << >> /\ \A s \in started : results[s].success))

\* C10: for a step that returned success the displayed outcome is Created,
\* Updated or No changes; Created exactly when dist held no file of that name
\* when the step started, Updated exactly when it held one and the file was
\* replaced, No changes exactly when it held one and the file is as it was;
\* and dist holds the artifact in every case.
OutcomeClassification ==
    Returned =>
        LET name == ret.asset_file_name
            before == exists(stepStart, name)
        IN /\ Outcome \in {"Created", "Updated", "No changes"}
           /\ exists(dist, name)
           /\ Outcome = "Created" <=> ~before
           /\ Outcome = "Updated" <=> (before /\ dist[name] # stepStart[name])
           /\ Outcome = "No changes" <=> (before /\ dist[name] = stepStart[name])

OutcomeClassificationWitness ==
    /\ Returned
    /\ exists(stepStart, ret.asset_file_name)
    /\ Outcome = "Updated"
    /\ dist[ret.asset_file_name] = Fresh

\* The step is at its publish decision, dist holds a file of the candidate's
\* name, the decision is not forced, and the compare_* function cannot
\* compute the equivalence of the two files.
ComparisonFails ==
    /\ pc \in {"src_publish", "deb_publish", "zip_publish", "msi_publish"}
    /\ Unforced
    /\ exists(dist, asset)
    /\ Compare(Fresh, dist[asset]) = "error"

\* C11: a comparison failure is fatal. When dist holds a file of the
\* candidate's name and the compare_* function fails with an error, the step
\* taken from the publish decision ends the run with exit status 1, leaves
\* dist and the results as they were and prints nothing; and a run that ended
\* on a comparison failure has the published file as it was when the step
\* started, no summary line ("No changes", "Updated" or any other) and the
\* step's results still at their defaults.
ComparisonFailureFatal ==
    /\ [][ComparisonFails =>
            /\ pc' = "done"
            /\ exit_code' = "1"
            /\ diag' = "comparison failed"
            /\ dist' = dist
            /\ results' = results
            /\ output' = << >>]_vars
    /\ [](diag = "comparison failed" =>
            /\ pc = "done"
            /\ exit_code = "1"
            /\ exists(dist, asset)
            /\ dist[asset] = stepStart[asset]
            /\ results[slot] = DefaultResults[slot]
            /\ output = << >>)

ComparisonFailureFatalWitness ==
    /\ pc = "done"
    /\ diag = "comparison failed"
    /\ exists(stepStart, asset)
    /\ dist[asset].payload = "corrupt"
    /\ exit_code = "1"

\* The tools package_src_tar_gz runs before its publish decision.
SrcTools == {"autoreconf", "configure", "make dist", "test_autotool_src"}
Succeeded(t) == [tool |-> t, ok |-> TRUE] \in tools
Failed(t) == [tool |-> t, ok |-> FALSE] \in tools
\* The file `n` is the same in the directories d1 and d2, or in neither.
SameFile(d1, d2, n) ==
    /\ n \in DOMAIN d1 <=> n \in DOMAIN d2
    /\ n \in DOMAIN d1 => d1[n] = d2[n]

\* C12: the src.tar.gz of the current version in dist is created or replaced
\* only by the publish decision of package_src_tar_gz, and only when earlier
\* in the same run autoreconf, ./configure and make dist exited with zero and
\* test_autotool_src returned True; once one of the four has failed, that
\* file is, for the rest of the run, as it was when the step started, and no
\* later step of the run starts.
SrcPublishedOnlyVerified ==
    /\ [][~SameFile(dist, dist', SrcName(version)) =>
            /\ pc = "src_publish"
            /\ \A t \in SrcTools : Succeeded(t) /\ ~Failed(t)
            /\ SrcName(version) \in DOMAIN dist'
            /\ dist'[SrcName(version)] = Fresh]_vars
    /\ []((\E t \in SrcTools : Failed(t)) =>
            /\ slot = "src"
            /\ pc \in {"linux_src_ret", "done"}
            /\ SameFile(dist, stepStart, SrcName(version))
            /\ pc = "done" => exit_code = "1" /\ output = << >>)

SrcPublishedOnlyVerifiedWitness ==
    /\ pc = "linux_src_ret"
    /\ ret.success /\ ret.copied /\ ret.existed
    /\ \A t \in SrcTools : Succeeded(t)
    /\ dist[SrcName(version)] = Fresh
    /\ stepStart[SrcName(version)] # Fresh

\* The candidate .msi differs from, or has no counterpart in, what dist held
\* when the step started.
MsiChangedBefore ==
    \/ ~exists(stepStart, asset)
    \/ Compare(Fresh, stepStart[asset]) = "different"

RpmBuiltOnRedHat ==
    ( /\ pc = "done"
      /\ host.platform = "linux"
      /\ host.redhat /\ ~host.debian /\ host.rpmbuild
      /\ host.cmake /\ host.cmakelists
      /\ \A t \in tools : t.ok
      /\ "src" \in started => results["src"].success ) =>
        /\ exit_code = "0"
        /\ results["rpm"].built /\ results["rpm"].success
        /\ Len(output) = 3
        /\ output[2][1] \in {"Created", "Updated", "No changes"}
        /\ output[3][1] = "skipped"

====
